---------------------------- MODULE Spec2Model ----------------------------
(***************************************************************************)
(* A model of setup.py of kglotfelty/TemperatureMap: the packaging script  *)
(* of the three CIAO scripts image_tempmap, make_mkwarf_map and            *)
(* multi_spec.                                                             *)
(*                                                                         *)
(* The script is a flat sequence of statements.  One action models one     *)
(* statement; pc names the statement that runs next.  The interpreter runs *)
(* in its default mode (__debug__ true, so the assert statement is         *)
(* executed) and distutils.core can be imported, as in the Python that     *)
(* CIAO ships.  distutils' setup() is outside the repository: the model    *)
(* records the keyword arguments each call of it receives and lets it      *)
(* return.  The environment and the working directory are those the        *)
(* process was started with and do not change while it runs.               *)
(***************************************************************************)
EXTENDS Naturals, Sequences, FiniteSets, TLC

VARIABLES
    env,        \* os.environ: a mapping from the names that are set to values
    files,      \* the paths of the working directory for which os.path.exists holds
    pc,         \* the statement that runs next, or how the run ended
    globals,    \* the module namespace: the names bound so far, with their values
    raised,     \* the exception that ended the run: <<>> or <<exception>>
    calls,      \* the keyword arguments of every call of setup() in this run
    trace,      \* the statements executed in this run, in order
    prev        \* <<>>, or <<what the run before this one read and how it ended>>

vars == <<env, files, pc, globals, raised, calls, trace, prev>>

\* The number of environment variables, besides ASCDS_INSTALL, that a run's
\* environment may hold.
NumOtherVars == 1

----------------------------------------------------------------------------
(* The inputs of a run *)

\* The environment variables that are set or left unset: ASCDS_INSTALL and
\* others the script never reads (VAR1, ...).
EnvNames == {"ASCDS_INSTALL"} \cup {"VAR" \o ToString(i) : i \in 1..NumOtherVars}

\* The values a variable that is set may have; ASCDS_INSTALL may be set to
\* the empty string.
EnvValues(n) == IF n = "ASCDS_INSTALL" THEN {"", "/soft/ciao"} ELSE {"x"}

\* os.environ: every mapping from a subset of the names to their values.
Environments ==
    UNION {{e \in [S -> UNION {EnvValues(n) : n \in S}] :
               \A n \in S : e[n] \in EnvValues(n)} : S \in SUBSET EnvNames}

\* scripts = ["image_tempmap","make_mkwarf_map","multi_spec"]
ScriptNames == <<"image_tempmap", "make_mkwarf_map", "multi_spec">>

\* The range of a sequence.
Range(s) == {s[i] : i \in DOMAIN s}

\* The paths that may or may not exist in the working directory: each script,
\* its parameter file and its documentation file.
FileUniverse ==
    UNION {{x, x \o ".par", x \o ".xml"} : x \in Range(ScriptNames)}

----------------------------------------------------------------------------
(* The expressions of the script *)

\* "ASCDS_INSTALL" in os.environ, as a bug would test it: the value's truth.
AssertConditionTruthy(e) ==
    "ASCDS_INSTALL" \in DOMAIN e /\ e["ASCDS_INSTALL"] # ""

\* "ASCDS_INSTALL" in os.environ, as a bug would skip it.
AssertConditionSkipped(e) == TRUE

\* "ASCDS_INSTALL" in os.environ
AssertCondition(e) == "ASCDS_INSTALL" \in DOMAIN e

\* The message of the assert statement.
AssertMessage == "Please run this after CIAO has been setup"

\* os.path.exists(p)
PathExists(p, fs) == p \in fs

\* [ x+".par" for x in scripts], as a bug would write the suffix.
ParamsCompWrongSuffix(scr) == [i \in 1..Len(scr) |-> scr[i] \o ".xml"]

\* [ x+".par" for x in scripts]
ParamsComp(scr) == [i \in 1..Len(scr) |-> scr[i] \o ".par"]

\* [ x+".xml" for x in scripts if os.path.exists(x+".xml")], without its filter.
DocsCompUnfiltered(scr, fs) == [i \in 1..Len(scr) |-> scr[i] \o ".xml"]

\* The same comprehension, collecting its elements in reverse.
RECURSIVE DocsCompReversed(_, _)
DocsCompReversed(scr, fs) ==
    IF scr = <<>> THEN <<>>
    ELSE LET x == Head(scr)
             rest == DocsCompReversed(Tail(scr), fs)
         IN  IF PathExists(x \o ".xml", fs) THEN rest \o <<x \o ".xml">>
             ELSE rest

\* [ x+".xml" for x in scripts if os.path.exists(x+".xml")]
RECURSIVE DocsComp(_, _)
DocsComp(scr, fs) ==
    IF scr = <<>> THEN <<>>
    ELSE LET x == Head(scr)
             rest == DocsComp(Tail(scr), fs)
         IN  IF PathExists(x \o ".xml", fs) THEN <<x \o ".xml">> \o rest
             ELSE rest

\* The metadata of the setup() call, with a version taken from the environment.
MetadataFromEnv(e) ==
    [name |-> "TemperatureMaps",
     version |-> IF "ASCDS_INSTALL" \in DOMAIN e /\ e["ASCDS_INSTALL"] # ""
                 THEN e["ASCDS_INSTALL"] ELSE "4.13.0",
     description |-> "Temperature maps scripts",
     author |-> "Kenny Glotfelty",
     author_email |-> "glotfeltyk@si.edu",
     url |-> "https://github.com/kglotfelty/TemperatureMaps/"]

\* The metadata keyword arguments of the setup() call.
Metadata(e) ==
    [name |-> "TemperatureMaps",
     version |-> "4.13.0",
     description |-> "Temperature maps scripts",
     author |-> "Kenny Glotfelty",
     author_email |-> "glotfeltyk@si.edu",
     url |-> "https://github.com/kglotfelty/TemperatureMaps/"]

\* data_files, leaving the documentation pair out when docs is empty.
DataFilesDropEmpty(g) ==
    IF g["docs"] = <<>> THEN << <<"param", g["params"]>> >>
    ELSE << <<"param", g["params"]>>, <<"share/doc/xml", g["docs"]>> >>

\* data_files = [ ("param", params ), ("share/doc/xml", docs ) ]
DataFiles(g) == << <<"param", g["params"]>>, <<"share/doc/xml", g["docs"]>> >>

\* The keyword arguments, naming only the scripts and parameter files that exist.
SetupArgsExisting(e, g) ==
    Metadata(e) @@
    [scripts |-> SelectSeq(g["scripts"], LAMBDA p : PathExists(p, files)),
     data_files |->
        << <<"param", SelectSeq(g["params"], LAMBDA p : PathExists(p, files))>>,
           <<"share/doc/xml", g["docs"]>> >>]

\* All keyword arguments of the setup() call.
SetupArgs(e, g) ==
    Metadata(e) @@ [scripts |-> g["scripts"], data_files |-> DataFiles(g)]

----------------------------------------------------------------------------
(* Control flow *)

\* The statements of the script, in the order of the file.
Statements == <<"assert", "scripts", "params", "docs", "import", "setup">>

\* How a run ends.
Terminal == {"failed", "done"}

\* The statement after s, as a bug would have it: the run ends after docs.
SuccStopsEarly(s) ==
    CASE s = "assert"  -> "scripts"
      [] s = "scripts" -> "params"
      [] s = "params"  -> "docs"
      [] s = "docs"    -> "done"
      [] s = "import"  -> "setup"
      [] s = "setup"   -> "done"

\* The statement after s, as a bug would have it: setup() is called again.
SuccSetupTwice(s) ==
    CASE s = "assert"  -> "scripts"
      [] s = "scripts" -> "params"
      [] s = "params"  -> "docs"
      [] s = "docs"    -> "import"
      [] s = "import"  -> "setup"
      [] s = "setup"   -> "setup"

\* The statement after s: the script has no branch and no loop.
Succ(s) ==
    CASE s = "assert"  -> "scripts"
      [] s = "scripts" -> "params"
      [] s = "params"  -> "docs"
      [] s = "docs"    -> "import"
      [] s = "import"  -> "setup"
      [] s = "setup"   -> "done"

\* g with name bound to value.
Bind(g, name, value) == (name :> value) @@ g

----------------------------------------------------------------------------
(* The state after the interpreter has started the script *)

NoGlobals == [n \in {} |-> <<>>]

Init ==
    /\ env \in Environments
    /\ files \in SUBSET FileUniverse
    /\ pc = "assert"
    /\ globals = NoGlobals
    /\ raised = <<>>
    /\ calls = <<>>
    /\ trace = <<>>
    /\ prev = <<>>

----------------------------------------------------------------------------
(* One action per statement *)

\* assert "ASCDS_INSTALL" in os.environ, "Please run this after CIAO has been setup"
AssertEnv ==
    /\ pc = "assert"
    /\ trace' = Append(trace, "assert")
    /\ IF AssertCondition(env)
       THEN /\ pc' = Succ("assert")
            /\ UNCHANGED raised
       ELSE /\ pc' = "failed"
            /\ raised' = <<[type |-> "AssertionError", msg |-> AssertMessage]>>
    /\ UNCHANGED <<env, files, globals, calls, prev>>

\* scripts = ["image_tempmap","make_mkwarf_map","multi_spec"]
BuildScripts ==
    /\ pc = "scripts"
    /\ globals' = Bind(globals, "scripts", ScriptNames)
    /\ trace' = Append(trace, "scripts")
    /\ pc' = Succ("scripts")
    /\ UNCHANGED <<env, files, raised, calls, prev>>

\* params = [ x+".par" for x in scripts]
BuildParams ==
    /\ pc = "params"
    /\ globals' = Bind(globals, "params", ParamsComp(globals["scripts"]))
    /\ trace' = Append(trace, "params")
    /\ pc' = Succ("params")
    /\ UNCHANGED <<env, files, raised, calls, prev>>

\* docs = [ x+".xml" for x in scripts if os.path.exists(x+".xml")]
BuildDocs ==
    /\ pc = "docs"
    /\ globals' = Bind(globals, "docs", DocsComp(globals["scripts"], files))
    /\ trace' = Append(trace, "docs")
    /\ pc' = Succ("docs")
    /\ UNCHANGED <<env, files, raised, calls, prev>>

\* from distutils.core import setup
ImportSetup ==
    /\ pc = "import"
    /\ globals' = Bind(globals, "setup", "distutils.core.setup")
    /\ trace' = Append(trace, "import")
    /\ pc' = Succ("import")
    /\ UNCHANGED <<env, files, raised, calls, prev>>

\* setup( name=..., ..., scripts = scripts, data_files = [...] )
CallSetup ==
    /\ pc = "setup"
    /\ calls' = Append(calls, SetupArgs(env, globals))
    /\ trace' = Append(trace, "setup")
    /\ pc' = Succ("setup")
    /\ UNCHANGED <<env, files, globals, raised, prev>>

\* A step of the script.
Step ==
    \/ AssertEnv
    \/ BuildScripts
    \/ BuildParams
    \/ BuildDocs
    \/ ImportSetup
    \/ CallSetup

\* The scripts whose documentation file exists.
XmlFacts(fs) == {x \in Range(ScriptNames) : PathExists(x \o ".xml", fs)}

\* What a run read (ASCDS_INSTALL: <<>> when unset, <<value>> when set; the
\* scripts whose documentation file exists) and how the run ended.
Observation ==
    [ascds   |-> IF "ASCDS_INSTALL" \in DOMAIN env
                 THEN <<env["ASCDS_INSTALL"]>> ELSE <<>>,
     xmls    |-> XmlFacts(files),
     ending  |-> pc,
     raised  |-> raised,
     calls   |-> calls]

\* The script is run again, in a new process, in any environment and directory.
Rerun ==
    /\ pc \in Terminal
    /\ prev = <<>>
    /\ prev' = <<Observation>>
    /\ env' \in Environments
    /\ files' \in SUBSET FileUniverse
    /\ pc' = "assert"
    /\ globals' = NoGlobals
    /\ raised' = <<>>
    /\ calls' = <<>>
    /\ trace' = <<>>

Next == Step \/ Rerun

\* A run of the script and the run after it.
Spec == Init /\ [][Next]_vars

\* One run of the script; the interpreter executes the next statement.
RunSpec == Init /\ [][Step]_vars /\ WF_vars(Step)

----------------------------------------------------------------------------
(* The claims *)

\* ASCDS_INSTALL is set in the environment of this run.
AscdsSet == "ASCDS_INSTALL" \in DOMAIN env

\* The names of the three lists.
ListNames == {"scripts", "params", "docs"}

\* The exception the assert statement is documented to raise.
AssertionFailure ==
    [type |-> "AssertionError", msg |-> "Please run this after CIAO has been setup"]

\* The three lists as the spec writes them.
AllScripts == <<"image_tempmap", "make_mkwarf_map", "multi_spec">>
AllParams == <<"image_tempmap.par", "make_mkwarf_map.par", "multi_spec.par">>
AllDocs == <<"image_tempmap.xml", "make_mkwarf_map.xml", "multi_spec.xml">>

\* s is a prefix of t.
IsPrefix(s, t) == Len(s) <= Len(t) /\ \A i \in DOMAIN s : s[i] = t[i]

\* s is t with some of its elements left out, the others in t's order.
IsSubsequence(s, t) ==
    \E f \in [DOMAIN s -> DOMAIN t] :
        /\ \A i \in DOMAIN s : s[i] = t[f[i]]
        /\ \A i, j \in DOMAIN s : i < j => f[i] < f[j]

C2_ParamsExact ==
    /\ "params" \in DOMAIN globals => globals["params"] = AllParams
    /\ AscdsSet /\ pc \in {"docs", "import", "setup", "done"}
           => "params" \in DOMAIN globals

\* C2's case: ASCDS_INSTALL set, no file at all in the directory, params built.
C2_Witness ==
    /\ AscdsSet
    /\ files = {}
    /\ "params" \in DOMAIN globals
    /\ globals["params"] = AllParams

\* C3: in every environment in which ASCDS_INSTALL is set, once the docs
\* statement has run docs contains "s.xml", for each script name s, if and
\* only if s.xml exists in the working directory; a name whose .xml file does
\* not exist is left out.
C3_DocsIffExists ==
    /\ "docs" \in DOMAIN globals =>
           \A s \in Range(AllScripts) :
               (s \o ".xml") \in Range(globals["docs"]) <=> (s \o ".xml") \in files
    /\ AscdsSet /\ pc \in {"import", "setup", "done"} => "docs" \in DOMAIN globals

\* C3's case: one documentation file exists and two do not; docs names that one.
C3_Witness ==
    /\ AscdsSet
    /\ files \cap Range(AllDocs) = {"make_mkwarf_map.xml"}
    /\ "docs" \in DOMAIN globals
    /\ globals["docs"] = <<"make_mkwarf_map.xml">>

\* C4: every call of setup() receives the fixed metadata fields name, version,
\* description, author, author_email and url with their literal values, and
\* no other field besides scripts and data_files, in every environment and
\* with every set of files.
C4_FixedMetadata ==
    \A i \in DOMAIN calls :
        /\ DOMAIN calls[i] = {"name", "version", "description", "author",
                              "author_email", "url", "scripts", "data_files"}
        /\ calls[i].name = "TemperatureMaps"
        /\ calls[i].version = "4.13.0"
        /\ calls[i].description = "Temperature maps scripts"
        /\ calls[i].author = "Kenny Glotfelty"
        /\ calls[i].author_email = "glotfeltyk@si.edu"
        /\ calls[i].url = "https://github.com/kglotfelty/TemperatureMaps/"

\* C4's case: setup() has been called with ASCDS_INSTALL set to a path, every
\* other variable set and every file present.
C4_Witness ==
    /\ calls # <<>>
    /\ DOMAIN env = EnvNames
    /\ env["ASCDS_INSTALL"] = "/soft/ciao"
    /\ files = FileUniverse
    /\ calls[1].version = "4.13.0"

\* The run failed at the assert statement, before anything else was done.
EndsAtAssert ==
    /\ pc = "failed"
    /\ trace = <<"assert">>
    /\ raised = <<AssertionFailure>>
    /\ globals = NoGlobals
    /\ calls = <<>>

\* The run built the lists, called setup() and ran to completion.
EndsComplete ==
    /\ pc = "done"
    /\ trace = Statements
    /\ raised = <<>>
    /\ ListNames \subseteq DOMAIN globals
    /\ Len(calls) = 1

Count(s, x) == Cardinality({i \in DOMAIN s : s[i] = x})

\* C6: the statements of a run execute in the order of the file, the assert
\* statement first; a list is bound exactly when its statement has run;
\* setup() is called at most once, and only with all three lists built.
C6_FixedOrder ==
    /\ IsPrefix(trace, <<"assert", "scripts", "params", "docs", "import", "setup">>)
    /\ \A n \in ListNames : n \in DOMAIN globals <=> n \in Range(trace)
    /\ Len(calls) = Count(trace, "setup")
    /\ Len(calls) <= 1
    /\ calls # <<>> => ListNames \subseteq DOMAIN globals

\* C6's case: setup() has been called, once, after all the other statements.
C6_Witness ==
    /\ Len(calls) = 1
    /\ trace = <<"assert", "scripts", "params", "docs", "import", "setup">>

\* C7: every call of setup() receives scripts = ["image_tempmap",
\* "make_mkwarf_map", "multi_spec"] and data_files = [("param", params),
\* ("share/doc/xml", docs)], these two pairs in this order; the second pair
\* is there, with an empty list, when no .xml file exists.
C7_CallArguments ==
    \A i \in DOMAIN calls :
        /\ calls[i].scripts = AllScripts
        /\ Len(calls[i].data_files) = 2
        /\ calls[i].data_files[1] = <<"param", globals["params"]>>
        /\ calls[i].data_files[2] = <<"share/doc/xml", globals["docs"]>>
        /\ XmlFacts(files) = {} => calls[i].data_files[2] = <<"share/doc/xml", <<>>>>

\* C7's case: no .xml file exists and setup() was called with the empty docs.
C7_Witness ==
    /\ pc = "done"
    /\ files \cap Range(AllDocs) = {}
    /\ Len(calls) = 1
    /\ calls[1].data_files = << <<"param", AllParams>>, <<"share/doc/xml", <<>>>> >>

\* C8: with ASCDS_INSTALL set, the completed run has called setup() with all
\* three script names and all three .par names whichever of those files
\* exist; only the documentation list is cut down to the files that exist.
C8_NoMissingFileHandling ==
    AscdsSet /\ pc = "done" =>
        /\ calls # <<>>
        /\ calls[1].scripts = AllScripts
        /\ calls[1].data_files[1][2] = AllParams
        /\ Range(calls[1].data_files[2][2]) = files \cap Range(AllDocs)

\* C8's case: no script and no parameter file exists (only one .xml), and
\* setup() was still called with all three of each.
C8_Witness ==
    /\ AscdsSet
    /\ pc = "done"
    /\ files = {"multi_spec.xml"}
    /\ calls[1].scripts = AllScripts
    /\ calls[1].data_files[1][2] = AllParams
    /\ calls[1].data_files[2][2] = <<"multi_spec.xml">>

\* C9: docs is always an order-preserving subsequence of
\* ["image_tempmap.xml", "make_mkwarf_map.xml", "multi_spec.xml"]: at most
\* three elements, no duplicates, each a script name followed by ".xml",
\* in the order of the scripts list.
C9_DocsSubsequence ==
    "docs" \in DOMAIN globals =>
        LET d == globals["docs"] IN
        /\ IsSubsequence(d, AllDocs)
        /\ Len(d) <= 3
        /\ \A i, j \in DOMAIN d : i # j => d[i] # d[j]
        /\ \A i \in DOMAIN d : \E s \in Range(globals["scripts"]) : d[i] = s \o ".xml"

\* C9's case: the first and the last documentation file exist, the middle one
\* does not; docs holds the two in the order of the scripts list.
C9_Witness ==
    /\ "docs" \in DOMAIN globals
    /\ files \cap Range(AllDocs) = {"image_tempmap.xml", "multi_spec.xml"}
    /\ globals["docs"] = <<"image_tempmap.xml", "multi_spec.xml">>

=============================================================================
